---- MODULE Spec2Model ----
(***************************************************************************)
(* Supply-chain dashboard: the mock-data generator                         *)
(* (backend/generate_data.py) and the FastAPI service (backend/main.py).   *)
(*                                                                         *)
(* Dates are day numbers of 2025 (1 = 2025-01-01); adding a timedelta is   *)
(* integer addition.  Fractions are kept exact: an allocation is held in   *)
(* tenths, a normal variate in hundredths, a percentage in hundredths of   *)
(* a percent.                                                              *)
(***************************************************************************)
EXTENDS Integers, Sequences, FiniteSets, TLC

VARIABLES
    pc,                 \* generate_data.py: the section of the script being run
    rng,                \* numpy's global generator: the variate stream and the position in it
    date,               \* loop variable `date` of the running for-loop
    sup,                \* index of `supplier` in the inner loop of section 4
    demand_data,        \* generate_data.py: demand_data
    purchase_orders,    \* generate_data.py: purchase_orders
    po_counter,         \* generate_data.py: po_counter
    inventory_records,  \* generate_data.py: inventory_records
    opening_stock,      \* generate_data.py: opening_stock
    probe,              \* inputs of one order computed on its own (SpecOrder)
    po_df,              \* main.py: po_df, the purchase-order table as loaded
    inventory_df,       \* main.py: inventory_df, the ledger table as loaded
    alerted_pos,        \* main.py: alerted_pos
    req,                \* main.py: the frame of allocation_breach_alerts in each worker thread
    started,            \* number of /alerts/allocation-breach requests begun
    responses,          \* what each ended /alerts/allocation-breach request returned or raised
    outbox,             \* PO ids of the emails sendmail has delivered, in order
    kpi                 \* the KPI request being answered and its response, until sent

genVars == <<pc, rng, date, sup, demand_data, purchase_orders, po_counter,
             inventory_records, opening_stock, probe>>
srvVars == <<po_df, inventory_df, alerted_pos, req, started, responses, outbox, kpi>>
vars == <<genVars, srvVars>>

-----------------------------------------------------------------------------
(* Bounds of the model *)

Horizon == 6          \* number of days of the date range that are generated
StreamPeriod == 4     \* period of the variate streams the generator is seeded with
RawMax == 4           \* a raw variate is one of 0..RawMax, standing for raw/(RawMax+1) in [0,1)

-----------------------------------------------------------------------------
(* generate_data.py, section 1: parameters *)

start_date == 1       \* datetime(2025, 1, 1)
end_date == 181       \* datetime(2025, 6, 30)

Min(a, b) == IF a < b THEN a ELSE b

\* pd.date_range(start_date, end_date), cut to the first Horizon days
dates == start_date .. Min(end_date, start_date + Horizon - 1)

\* date.month for a day number of 2025 (days past December are not needed)
Month(d) ==
    IF d <= 31 THEN 1
    ELSE IF d <= 59 THEN 2
    ELSE IF d <= 90 THEN 3
    ELSE IF d <= 120 THEN 4
    ELSE IF d <= 151 THEN 5
    ELSE IF d <= 181 THEN 6
    ELSE IF d <= 212 THEN 7
    ELSE 8

\* allocation is in tenths (0.5, 0.3, 0.2)
suppliers ==
    << [supplier_id |-> "S1", allocation |-> 5, lead_time |-> 5],
       [supplier_id |-> "S2", allocation |-> 3, lead_time |-> 7],
       [supplier_id |-> "S3", allocation |-> 2, lead_time |-> 4] >>

base_demand == 300
initial_opening_stock == 5000
safety_stock == 1000

-----------------------------------------------------------------------------
(* Arithmetic helpers *)

\* Python's int() of the quotient num/den (den > 0): truncation toward zero
IntTrunc(num, den) ==
    IF num >= 0 THEN num \div den ELSE -((-num) \div den)

RECURSIVE SumSeq(_)
SumSeq(s) == IF s = <<>> THEN 0 ELSE Head(s) + SumSeq(Tail(s))

RECURSIVE Digits(_)
\* the decimal digits of n >= 0, as str() writes them
Digits(n) ==
    IF n < 10 THEN <<n>> ELSE Digits(n \div 10) \o <<n % 10>>

\* f"PO{po_counter}"
PoId(counter) == <<"P", "O">> \o Digits(counter)

-----------------------------------------------------------------------------
(* numpy's seeded generator.  np.random.seed fixes the whole stream of     *)
(* variates; the model takes every stream of period StreamPeriod over the  *)
(* raw values 0..RawMax and maps a raw value to the outcome of each draw.  *)

RawValues == 0 .. RawMax
Streams == [1 .. StreamPeriod -> RawValues]

\* the generator when nothing draws from it
NoStream == [stream |-> [i \in 1 .. StreamPeriod |-> 0], pos |-> 0]

\* the k-th raw variate after the current position
Raw(g, k) == g.stream[((g.pos + k) % StreamPeriod) + 1]
Advance(g, n) == [g EXCEPT !.pos = (g.pos + n) % StreamPeriod]

\* np.random.randint(low, high): an integer of low..high-1
randint(low, high, raw) == low + (raw * (high - low)) \div (RawMax + 1)

\* np.random.choice([0, 1, 2, 3, 5], p=...): every listed value has positive probability
DelayChoices == <<0, 1, 2, 3, 5>>
choice(raw) == DelayChoices[((raw * Len(DelayChoices)) \div (RawMax + 1)) + 1]

\* np.random.normal(1, 0.1), in hundredths: the support is the whole real line;
\* the model samples it at the centre, one sigma either side, and far in the lower tail
NormalDraws == <<100, 112, 88, 3, -4, 0>>
normal(raw) == NormalDraws[(raw % Len(NormalDraws)) + 1]

-----------------------------------------------------------------------------
(* generate_data.py, section 3: demand generation *)

\* int((base_demand + noise) * seasonal_factor), seasonal_factor = 1.2 in May and June
Demand(d, noise) ==
    IF Month(d) \in {5, 6}
    THEN IntTrunc((base_demand + noise) * 12, 10)
    ELSE base_demand + noise

GenerateDemand ==
    /\ pc = "demand"
    /\ demand_data' = Append(demand_data,
            [date |-> date, actual_demand |-> Demand(date, randint(-40, 60, Raw(rng, 0)))])
    /\ rng' = Advance(rng, 1)
    /\ IF date + 1 \in dates
       THEN /\ date' = date + 1
            /\ pc' = pc
       ELSE /\ date' = start_date
            /\ pc' = "orders"
    /\ UNCHANGED <<sup, purchase_orders, po_counter, inventory_records, opening_stock, probe>>
    /\ UNCHANGED srvVars

-----------------------------------------------------------------------------
(* generate_data.py, section 4: purchase order generation *)

\* demand_data.loc[demand_data["date"] == date, "actual_demand"].values[0]
DemandOn(table, d) ==
    SelectSeq(table, LAMBDA r : r.date = d)[1].actual_demand

\* int(allocated_qty * np.random.normal(1, 0.1)), allocated_qty = daily_demand * allocation
OrderQty(daily_demand, allocation, n) == IntTrunc(daily_demand * allocation * n, 1000)

\* 1 if actual_order_qty > allocated_qty else 0
BreachFlag(actual_order_qty, daily_demand, allocation) ==
    IF actual_order_qty * 10 > daily_demand * allocation THEN 1 ELSE 0

ReceivedQtyGrown(actual_order_qty, shrink) == actual_order_qty + shrink

\* actual_order_qty - np.random.randint(0, 5)
ReceivedQty(actual_order_qty, shrink) == actual_order_qty - shrink

\* the dict appended to purchase_orders
PurchaseOrder(counter, d, supplier, daily_demand, n, delay_days, shrink) ==
    LET actual_order_qty == OrderQty(daily_demand, supplier.allocation, n)
        planned_delivery == d + supplier.lead_time
    IN  [ po_id |-> PoId(counter),
          supplier_id |-> supplier.supplier_id,
          order_date |-> d,
          planned_delivery_date |-> planned_delivery,
          actual_delivery_date |-> planned_delivery + delay_days,
          ordered_quantity |-> actual_order_qty,
          received_quantity |-> ReceivedQty(actual_order_qty, shrink),
          delay_days |-> delay_days,
          delay_flag |-> IF delay_days > 0 THEN 1 ELSE 0,
          allocation_breach_flag |->
              BreachFlag(actual_order_qty, daily_demand, supplier.allocation) ]

NextPoCounterStuck(counter) == counter

\* po_counter += 1
NextPoCounter(counter) == counter + 1

GenerateOrder ==
    /\ pc = "orders"
    /\ purchase_orders' = Append(purchase_orders,
            PurchaseOrder(po_counter, date, suppliers[sup], DemandOn(demand_data, date),
                          normal(Raw(rng, 0)), choice(Raw(rng, 1)),
                          randint(0, 5, Raw(rng, 2))))
    /\ rng' = Advance(rng, 3)
    /\ po_counter' = NextPoCounter(po_counter)
    /\ IF sup < Len(suppliers)
       THEN /\ sup' = sup + 1
            /\ UNCHANGED <<date, pc>>
       ELSE /\ sup' = 1
            /\ IF date + 1 \in dates
               THEN /\ date' = date + 1
                    /\ pc' = pc
               ELSE /\ date' = start_date
                    /\ pc' = "ledger"
    /\ UNCHANGED <<demand_data, inventory_records, opening_stock, probe>>
    /\ UNCHANGED srvVars

-----------------------------------------------------------------------------
(* generate_data.py, section 5: inventory ledger *)

ReceivedTodayByPlan(orders, d) ==
    LET rows == SelectSeq(orders, LAMBDA r : r.planned_delivery_date = d)
    IN  SumSeq([i \in 1 .. Len(rows) |-> rows[i].received_quantity])

\* purchase_orders.loc[purchase_orders["actual_delivery_date"] == date, "received_quantity"].sum()
ReceivedToday(orders, d) ==
    LET rows == SelectSeq(orders, LAMBDA r : r.actual_delivery_date = d)
    IN  SumSeq([i \in 1 .. Len(rows) |-> rows[i].received_quantity])

CarriedStockReset(closing_stock) == initial_opening_stock

\* opening_stock = closing_stock
CarriedStock(closing_stock) == closing_stock

\* the dict appended to inventory_records
LedgerEntry(d, opening, orders, demand) ==
    LET received_today == ReceivedToday(orders, d)
        consumed_today == DemandOn(demand, d)
        closing_stock == opening + received_today - consumed_today
    IN  [ date |-> d,
          opening_stock |-> opening,
          received_quantity |-> received_today,
          consumed_quantity |-> consumed_today,
          closing_stock |-> closing_stock,
          safety_stock_level |-> safety_stock,
          stockout_flag |-> IF closing_stock < safety_stock THEN 1 ELSE 0 ]

BuildLedgerEntry ==
    /\ pc = "ledger"
    /\ LET entry == LedgerEntry(date, opening_stock, purchase_orders, demand_data)
       IN  /\ inventory_records' = Append(inventory_records, entry)
           /\ opening_stock' = CarriedStock(entry.closing_stock)
    /\ IF date + 1 \in dates
       THEN /\ date' = date + 1
            /\ pc' = pc
       ELSE /\ date' = date
            /\ pc' = "done"
    /\ UNCHANGED <<rng, sup, demand_data, purchase_orders, po_counter, probe>>
    /\ UNCHANGED srvVars

-----------------------------------------------------------------------------
(* main.py: the /alerts/allocation-breach endpoint.  FastAPI runs a plain   *)
(* `def` handler in a worker thread, so two requests can be inside the      *)
(* handler at once; the membership test, the SMTP send and the insertion    *)
(* into alerted_pos are separate steps of a thread.                         *)

MaxRequests == 4      \* requests begun in one run of the model
NumWorkers == 2       \* worker threads that can run the handler at once
NumPoRows == 3        \* rows of the stored purchase-order table

\* no KPI request has been answered yet
NoKpi == [endpoint |-> "none"]

IdleFrame ==
    [pc |-> "idle", date |-> 0, breaches |-> <<>>, i |-> 0, emails_sent |-> <<>>,
     attempted |-> <<>>, skipped |-> {}]

\* po_df[po_df["actual_delivery_date"] == target_date], then
\* df[df["received_quantity"] > df["ordered_quantity"]]
Breaches(table, target_date) ==
    LET df == SelectSeq(table, LAMBDA r : r.actual_delivery_date = target_date)
    IN  SelectSeq(df, LAMBDA r : r.received_quantity > r.ordered_quantity)

NotAlertedAlways(po_id, alerted) == TRUE

\* row["po_id"] not in alerted_pos
NotAlerted(po_id, alerted) == po_id \notin alerted

\* what an ended request leaves behind: the HTTP response, and what the request did
Response(t, status) ==
    [ worker |-> t,
      status |-> status,
      date_checked |-> req[t].date,
      breaches_detected |-> Len(req[t].breaches),
      emails_sent_for_po_ids |-> req[t].emails_sent,
      batch |-> {req[t].breaches[k].po_id : k \in 1 .. Len(req[t].breaches)},
      attempted |-> req[t].attempted,
      skipped |-> req[t].skipped,
      alerted |-> alerted_pos ]

\* lines 202-213: load_data(), the two filters, emails_sent = []
BeginAlert(t, d) ==
    /\ req[t].pc = "idle"
    /\ started < MaxRequests
    /\ started' = started + 1
    /\ req' = [req EXCEPT ![t] =
                  [IdleFrame EXCEPT !.pc = "loop", !.date = d,
                                    !.breaches = Breaches(po_df, d), !.i = 1]]
    /\ UNCHANGED <<po_df, inventory_df, alerted_pos, responses, outbox, kpi>>
    /\ UNCHANGED genVars

\* lines 215-216: the next row of breaches.iterrows() and the membership test
TestAlerted(t) ==
    /\ req[t].pc = "loop"
    /\ req[t].i <= Len(req[t].breaches)
    /\ LET po_id == req[t].breaches[req[t].i].po_id
       IN  IF NotAlerted(po_id, alerted_pos)
           THEN req' = [req EXCEPT ![t].pc = "send"]
           ELSE req' = [req EXCEPT ![t].i = @ + 1, ![t].skipped = @ \cup {po_id}]
    /\ UNCHANGED <<po_df, inventory_df, alerted_pos, started, responses, outbox, kpi>>
    /\ UNCHANGED genVars

\* line 217: send_allocation_alert(row) returns, the message is delivered
SendDelivered(t) ==
    /\ req[t].pc = "send"
    /\ LET po_id == req[t].breaches[req[t].i].po_id
       IN  /\ outbox' = Append(outbox, po_id)
           /\ req' = [req EXCEPT ![t].pc = "add", ![t].attempted = Append(@, po_id)]
    /\ UNCHANGED <<po_df, inventory_df, alerted_pos, started, responses, kpi>>
    /\ UNCHANGED genVars

\* line 217: smtplib raises in send_allocation_alert (lines 100-102); nothing catches
\* it, so the handler is left and the request ends with an error
SendRaises(t) ==
    /\ req[t].pc = "send"
    /\ LET po_id == req[t].breaches[req[t].i].po_id
           frame == [req[t] EXCEPT !.attempted = Append(@, po_id)]
       IN  /\ responses' = Append(responses,
                  [Response(t, "error") EXCEPT !.attempted = frame.attempted,
                                               !.emails_sent_for_po_ids = <<>>])
           /\ req' = [req EXCEPT ![t] = IdleFrame]
    /\ UNCHANGED <<po_df, inventory_df, alerted_pos, started, outbox, kpi>>
    /\ UNCHANGED genVars

\* lines 218-219: alerted_pos.add(...), emails_sent.append(...)
AddAlerted(t) ==
    /\ req[t].pc = "add"
    /\ LET po_id == req[t].breaches[req[t].i].po_id
       IN  /\ alerted_pos' = alerted_pos \cup {po_id}
           /\ req' = [req EXCEPT ![t].pc = "loop", ![t].i = @ + 1,
                                 ![t].emails_sent = Append(@, po_id)]
    /\ UNCHANGED <<po_df, inventory_df, started, responses, outbox, kpi>>
    /\ UNCHANGED genVars

\* lines 221-225: the loop is exhausted, the response is returned
ReturnAlert(t) ==
    /\ req[t].pc = "loop"
    /\ req[t].i > Len(req[t].breaches)
    /\ responses' = Append(responses, Response(t, "ok"))
    /\ req' = [req EXCEPT ![t] = IdleFrame]
    /\ UNCHANGED <<po_df, inventory_df, alerted_pos, started, outbox, kpi>>
    /\ UNCHANGED genVars

\* dates a request can ask about, and delivery dates of the stored rows
AlertDates == 1 .. 2

\* the stored purchase_orders file: row k has po_id PO<k>; a row is a breach for the
\* endpoint when more was received than ordered
AlertTables ==
    { [k \in 1 .. NumPoRows |->
          [ po_id |-> PoId(k), supplier_id |-> "S1",
            actual_delivery_date |-> day[k],
            ordered_quantity |-> 150,
            received_quantity |-> 150 + over[k],
            delay_days |-> 0, delay_flag |-> 0, allocation_breach_flag |-> 0 ]] :
      day \in [1 .. NumPoRows -> AlertDates], over \in [1 .. NumPoRows -> {-2, 3}] }

\* the generator has run and is not part of the service
GeneratorDone ==
    /\ pc = "served"
    /\ rng = NoStream
    /\ date = start_date
    /\ sup = 1
    /\ demand_data = <<>>
    /\ purchase_orders = <<>>
    /\ po_counter = 1
    /\ inventory_records = <<>>
    /\ opening_stock = initial_opening_stock
    /\ probe = "none"

InitAlert(workers) ==
    /\ GeneratorDone
    /\ po_df \in AlertTables
    /\ inventory_df = <<>>
    /\ alerted_pos = {}
    /\ req = [t \in workers |-> IdleFrame]
    /\ started = 0
    /\ responses = <<>>
    /\ outbox = <<>>
    /\ kpi = NoKpi

NextAlert ==
    \/ \E t \in DOMAIN req, d \in AlertDates : BeginAlert(t, d)
    \/ \E t \in DOMAIN req : TestAlerted(t)
    \/ \E t \in DOMAIN req : SendDelivered(t)
    \/ \E t \in DOMAIN req : SendRaises(t)
    \/ \E t \in DOMAIN req : AddAlerted(t)
    \/ \E t \in DOMAIN req : ReturnAlert(t)

\* requests one after another: a single thread is ever inside the handler
SpecAlertSeq == InitAlert({1}) /\ [][NextAlert]_vars

\* overlapping requests
SpecAlert == InitAlert(1 .. NumWorkers) /\ [][NextAlert]_vars

-----------------------------------------------------------------------------
(* main.py: the KPI endpoints.  An optional query parameter is <<>> when    *)
(* absent (None) and <<v>> when given; a date string is the day number it   *)
(* parses to.                                                               *)

MaxKpiRows == 2       \* rows of the stored purchase-order table read by the KPI endpoints
MaxLedgerRows == 3    \* rows of the stored inventory ledger

\* round(num / den, 0) as Python rounds an exact tie: to the even neighbour (num >= 0, den > 0)
RoundDiv(num, den) ==
    LET q == num \div den
        twice == 2 * (num % den)
    IN  IF twice < den THEN q
        ELSE IF twice > den THEN q + 1
        ELSE IF q % 2 = 0 THEN q ELSE q + 1

\* filter_po_data: the three optional filters, in turn
filter_po_data(table, start, end, supplier) ==
    LET df1 == IF start # <<>>
               THEN SelectSeq(table, LAMBDA r : r.actual_delivery_date >= start[1])
               ELSE table
        df2 == IF end # <<>>
               THEN SelectSeq(df1, LAMBDA r : r.actual_delivery_date <= end[1])
               ELSE df1
    IN  IF supplier # <<>>
        THEN SelectSeq(df2, LAMBDA r : r.supplier_id = supplier[1])
        ELSE df2

Returned(value) == [raised |-> "", value |-> value]
Raised(exception) == [raised |-> exception, value |-> 0]

\* len(df[df[column] == 0])
CountZero(df, column) == Len(SelectSeq(df, LAMBDA r : r[column] = 0))

on_time_delivery_unguarded(table, start, end, supplier) ==
    LET df == filter_po_data(table, start, end, supplier)
        total == Len(df)
    IN  IF total = 0 THEN Raised("ZeroDivisionError")
        ELSE Returned(RoundDiv(CountZero(df, "delay_flag") * 10000, total))

\* on_time_delivery: the percentage in hundredths of a percent
on_time_delivery(table, start, end, supplier) ==
    LET df == filter_po_data(table, start, end, supplier)
        total == Len(df)
    IN  IF total = 0 THEN Returned(0)
        ELSE Returned(RoundDiv(CountZero(df, "delay_flag") * 10000, total))

\* avg_delay: the mean in hundredths of a day
avg_delay(table, start, end, supplier) ==
    LET df == filter_po_data(table, start, end, supplier)
    IN  IF Len(df) = 0 THEN Returned(0)
        ELSE Returned(RoundDiv(SumSeq([i \in 1 .. Len(df) |-> df[i].delay_days]) * 100,
                               Len(df)))

\* allocation_compliance: the percentage in hundredths of a percent
allocation_compliance(table, start, end, supplier) ==
    LET df == filter_po_data(table, start, end, supplier)
        total == Len(df)
    IN  IF total = 0 THEN Returned(0)
        ELSE Returned(RoundDiv(CountZero(df, "allocation_breach_flag") * 10000,
                               total))

\* the supplier ids in the order groupby sorts its keys
SortedSupplierIds == <<"S1", "S2", "S3">>

\* df.groupby("supplier_id")[column].mean(), then (1 - mean) * 100 rounded to 2 places:
\* one record per supplier id present in df, keys sorted
GroupCompliance(df, column) ==
    LET keys == SelectSeq(SortedSupplierIds,
                          LAMBDA id : \E i \in 1 .. Len(df) : df[i].supplier_id = id)
    IN  [k \in 1 .. Len(keys) |->
            LET group == SelectSeq(df, LAMBDA r : r.supplier_id = keys[k])
                flagged == SumSeq([i \in 1 .. Len(group) |-> group[i][column]])
            IN  [ supplier_id |-> keys[k],
                  percentage |-> RoundDiv((Len(group) - flagged) * 10000, Len(group)) ]]

\* supplier_performance
supplier_performance(table, start, end) ==
    LET df == filter_po_data(table, start, end, <<>>)
    IN  IF Len(df) = 0 THEN Returned(<<>>)
        ELSE Returned(GroupCompliance(df, "delay_flag"))

\* supplier_allocation_compliance
supplier_allocation_compliance(table, start, end) ==
    LET df == filter_po_data(table, start, end, <<>>)
    IN  IF Len(df) = 0 THEN Returned(<<>>)
        ELSE Returned(GroupCompliance(df, "allocation_breach_flag"))

\* current_stock: int(inventory_df.iloc[-1]["closing_stock"])
current_stock(ledger) ==
    IF Len(ledger) = 0 THEN Raised("IndexError")
    ELSE Returned(ledger[Len(ledger)].closing_stock)

\* stockout_days: int(inventory_df["stockout_flag"].sum())
stockout_days(ledger) ==
    Returned(SumSeq([i \in 1 .. Len(ledger) |-> ledger[i].stockout_flag]))

\* a handler runs to its return on the free worker: load_data() re-reads the same files
Respond(endpoint, start, end, supplier, response) ==
    /\ kpi = NoKpi
    /\ kpi' = [ endpoint |-> endpoint, start_date |-> start, end_date |-> end,
                supplier |-> supplier, response |-> response ]
    /\ UNCHANGED <<po_df, inventory_df, alerted_pos, req, started, responses, outbox>>
    /\ UNCHANGED genVars

\* the framework has sent the handler's return value (or its error) to the client
ResponseSent ==
    /\ kpi # NoKpi
    /\ kpi' = NoKpi
    /\ UNCHANGED <<po_df, inventory_df, alerted_pos, req, started, responses, outbox>>
    /\ UNCHANGED genVars

\* query parameters: stored rows are delivered on days 1 and 2 by suppliers S1 and S2
StartDateParams == {<<>>, <<2>>, <<3>>}
EndDateParams == {<<>>, <<0>>, <<1>>}
SupplierParams == {<<>>, <<"S1">>, <<"S9">>}

OnTimeDelivery ==
    \E start \in StartDateParams, end \in EndDateParams, supplier \in SupplierParams :
        Respond("on-time-delivery", start, end, supplier,
                on_time_delivery(po_df, start, end, supplier))

AvgDelay ==
    \E start \in StartDateParams, end \in EndDateParams, supplier \in SupplierParams :
        Respond("avg-delay", start, end, supplier, avg_delay(po_df, start, end, supplier))

SupplierPerformance ==
    \E start \in StartDateParams, end \in EndDateParams :
        Respond("supplier-performance", start, end, <<>>,
                supplier_performance(po_df, start, end))

AllocationCompliance ==
    \E start \in StartDateParams, end \in EndDateParams, supplier \in SupplierParams :
        Respond("allocation-compliance", start, end, supplier,
                allocation_compliance(po_df, start, end, supplier))

SupplierAllocationCompliance ==
    \E start \in StartDateParams, end \in EndDateParams :
        Respond("supplier-allocation-compliance", start, end, <<>>,
                supplier_allocation_compliance(po_df, start, end))

CurrentStock ==
    Respond("current-stock", <<>>, <<>>, <<>>, current_stock(inventory_df))

StockoutDays ==
    Respond("stockout-days", <<>>, <<>>, <<>>, stockout_days(inventory_df))

\* the stored purchase_orders file as the KPI endpoints read it
KpiRows ==
    { [ po_id |-> PoId(k), supplier_id |-> s, actual_delivery_date |-> d,
        ordered_quantity |-> 150, received_quantity |-> 148,
        delay_days |-> late, delay_flag |-> IF late > 0 THEN 1 ELSE 0,
        allocation_breach_flag |-> b ] :
      k \in {1}, s \in {"S1", "S2"}, d \in 1 .. 2, late \in {0, 2}, b \in {0, 1} }

KpiTables ==
    UNION { { [k \in 1 .. n |-> [row[k] EXCEPT !.po_id = PoId(k)]] :
              row \in [1 .. n -> KpiRows] } : n \in 0 .. MaxKpiRows }

\* the stored inventory_ledger file: one row per date, in any row order
LedgerRows ==
    { [ date |-> d, closing_stock |-> c, safety_stock_level |-> safety_stock,
        stockout_flag |-> IF c < safety_stock THEN 1 ELSE 0 ] :
      d \in 1 .. MaxLedgerRows, c \in {900, 5200} }

StoredLedgers ==
    UNION { { l \in [1 .. n -> LedgerRows] :
                \A i, j \in 1 .. n : l[i].date = l[j].date => i = j } :
            n \in 0 .. MaxLedgerRows }

-----------------------------------------------------------------------------
(* One purchase order computed on its own, for every value of its draws *)

\* the values np.random.randint(low, high) can return
RandintRange(low, high) == low .. (high - 1)

\* order dates either side of the start of the seasonal months, and the ends of the range
ProbeDates == {start_date, 120, 121, end_date}

\* values of np.random.normal(1, 0.1), in hundredths
ProbeNormals == {-4, 0, 1, 3, 50, 88, 99, 100, 101, 112, 150}

ProbeOrder ==
    /\ pc = "probe"
    /\ purchase_orders' =
          << PurchaseOrder(po_counter, probe.date, suppliers[probe.sup],
                           Demand(probe.date, probe.noise),
                           probe.n, probe.delay_days, probe.shrink) >>
    /\ po_counter' = NextPoCounter(po_counter)
    /\ pc' = "probed"
    /\ UNCHANGED <<rng, date, sup, demand_data, inventory_records, opening_stock, probe>>
    /\ UNCHANGED srvVars

-----------------------------------------------------------------------------
(* Specifications of the generator *)

\* the service is not running while the batch generator runs
ServiceDown ==
    /\ po_df = <<>>
    /\ inventory_df = <<>>
    /\ alerted_pos = {}
    /\ req = <<>>
    /\ started = 0
    /\ responses = <<>>
    /\ outbox = <<>>
    /\ kpi = NoKpi

Init ==
    /\ pc = "demand"
    /\ rng \in [stream : Streams, pos : {0}]
    /\ date = start_date
    /\ sup = 1
    /\ demand_data = <<>>
    /\ purchase_orders = <<>>
    /\ po_counter = 1
    /\ inventory_records = <<>>
    /\ opening_stock = initial_opening_stock
    /\ probe = "none"
    /\ ServiceDown

Next ==
    \/ GenerateDemand
    \/ GenerateOrder
    \/ BuildLedgerEntry

Spec == Init /\ [][Next]_vars

InitOrder ==
    /\ pc = "probe"
    /\ rng = NoStream
    /\ date = start_date
    /\ sup = 1
    /\ demand_data = <<>>
    /\ purchase_orders = <<>>
    /\ po_counter = 1
    /\ inventory_records = <<>>
    /\ opening_stock = initial_opening_stock
    /\ probe \in [ date : ProbeDates,
                   noise : RandintRange(-40, 60),
                   sup : 1 .. Len(suppliers),
                   n : ProbeNormals,
                   delay_days : {DelayChoices[i] : i \in 1 .. Len(DelayChoices)},
                   shrink : RandintRange(0, 5) ]
    /\ ServiceDown

NextOrder == ProbeOrder

SpecOrder == InitOrder /\ [][NextOrder]_vars

-----------------------------------------------------------------------------
(* Specifications of the KPI endpoints *)

ServiceQuiet ==
    /\ alerted_pos = {}
    /\ req = [t \in {1} |-> IdleFrame]
    /\ started = 0
    /\ responses = <<>>
    /\ outbox = <<>>
    /\ kpi = NoKpi

InitKpi ==
    /\ GeneratorDone
    /\ po_df \in KpiTables
    /\ inventory_df = <<>>
    /\ ServiceQuiet

NextKpi ==
    \/ OnTimeDelivery
    \/ AvgDelay
    \/ SupplierPerformance
    \/ AllocationCompliance
    \/ SupplierAllocationCompliance
    \/ ResponseSent

SpecKpi == InitKpi /\ [][NextKpi]_vars

InitStock ==
    /\ GeneratorDone
    /\ po_df = <<>>
    /\ inventory_df \in StoredLedgers
    /\ ServiceQuiet

NextStock ==
    \/ CurrentStock
    \/ StockoutDays
    \/ ResponseSent

SpecStock == InitStock /\ [][NextStock]_vars

-----------------------------------------------------------------------------
(* Properties of the generator *)

RECURSIVE SumOver(_, _)
\* the sum of f[x] over the finite set S
SumOver(S, f) ==
    IF S = {} THEN 0
    ELSE LET x == CHOOSE y \in S : TRUE IN f[x] + SumOver(S \ {x}, f)

\* C1: the first ledger entry opens at the initial opening stock (5000), every later
\* entry opens at the previous entry's closing stock, and the entries are one per
\* date of the range, in chronological order without gaps.
LedgerChaining ==
    /\ \A i \in 1 .. Len(inventory_records) :
          /\ inventory_records[i].date = start_date + i - 1
          /\ inventory_records[i].date \in dates
          /\ inventory_records[i].opening_stock =
                IF i = 1 THEN 5000 ELSE inventory_records[i - 1].closing_stock
    /\ pc = "done" => Len(inventory_records) = Cardinality(dates)

LedgerChainingWitness ==
    /\ pc = "done"
    /\ Len(inventory_records) = Cardinality(dates)
    /\ \E i \in 2 .. Len(inventory_records) :
          /\ inventory_records[i].opening_stock # 5000
          /\ inventory_records[i].opening_stock # inventory_records[i - 1].opening_stock

\* C2: there is exactly one purchase order per (date, supplier) pair, |dates| x
\* |suppliers| in all; the k-th order generated has po_id PO<k>, belongs to the
\* date-major, supplier-minor position k, and no two orders share a po_id.
OneOrderPerDateSupplier ==
    /\ \A k \in 1 .. Len(purchase_orders) :
          /\ purchase_orders[k].po_id = <<"P", "O">> \o Digits(k)
          /\ purchase_orders[k].order_date = start_date + ((k - 1) \div Len(suppliers))
          /\ purchase_orders[k].supplier_id =
                suppliers[((k - 1) % Len(suppliers)) + 1].supplier_id
    /\ \A j, k \in 1 .. Len(purchase_orders) :
          purchase_orders[j].po_id = purchase_orders[k].po_id => j = k
    /\ pc \in {"ledger", "done"} =>
          /\ Len(purchase_orders) = Cardinality(dates) * Len(suppliers)
          /\ \A d \in dates : \A s \in 1 .. Len(suppliers) :
                Cardinality({k \in 1 .. Len(purchase_orders) :
                                /\ purchase_orders[k].order_date = d
                                /\ purchase_orders[k].supplier_id = suppliers[s].supplier_id})
                   = 1

OneOrderPerDateSupplierWitness ==
    /\ pc = "done"
    /\ Len(purchase_orders) = Cardinality(dates) * Len(suppliers)
    /\ Len(purchase_orders) >= 10
    /\ purchase_orders[Len(purchase_orders)].po_id = <<"P", "O">> \o Digits(po_counter - 1)

\* C3: every generated order has received_quantity <= ordered_quantity, whatever the
\* variance and shrinkage draws: the shrinkage subtracted is one of 0, 1, 2, 3, 4.
ReceivedAtMostOrdered ==
    \A k \in 1 .. Len(purchase_orders) :
        /\ purchase_orders[k].received_quantity <= purchase_orders[k].ordered_quantity
        /\ purchase_orders[k].ordered_quantity - purchase_orders[k].received_quantity
              \in {0, 1, 2, 3, 4}

ReceivedAtMostOrderedWitness ==
    /\ pc = "probed"
    /\ probe.shrink = 4
    /\ probe.n > 100
    /\ purchase_orders[1].ordered_quantity = purchase_orders[1].received_quantity + 4

\* C4: every generated order has received_quantity >= 0: a shrinkage larger than
\* ordered_quantity is clamped so that received_quantity is 0.
ReceivedNeverNegative ==
    \A k \in 1 .. Len(purchase_orders) :
        /\ purchase_orders[k].received_quantity >= 0
        /\ (pc = "probed" /\ probe.shrink > purchase_orders[k].ordered_quantity)
              => purchase_orders[k].received_quantity = 0

\* C10: each ledger entry's received_quantity is the sum of received_quantity over
\* exactly the orders delivered on its date, consumed_quantity is that date's demand,
\* closing = opening + received - consumed, stockout_flag is 1 exactly when closing is
\* below the safety stock level; so closing stock is the initial stock plus everything
\* delivered on range dates up to that date minus all demand up to it, each order
\* counted in at most one entry and orders delivered after the range in none.
DeliveredOn(D) ==
    {k \in 1 .. Len(purchase_orders) : purchase_orders[k].actual_delivery_date \in D}

-----------------------------------------------------------------------------
(* Properties of the alert endpoint *)

Occurrences(s, x) == Cardinality({k \in 1 .. Len(s) : s[k] = x})

SeqRange(s) == {s[k] : k \in 1 .. Len(s)}

\* C5: once a call for a date has returned, a later call for the same date sends no
\* email and returns an empty emails_sent_for_po_ids with the same breaches_detected;
\* a PO id is in emails_sent_for_po_ids of at most one returned call.
AlertIdempotent ==
    \A i, j \in 1 .. Len(responses) :
        (i < j /\ responses[i].status = "ok" /\ responses[j].status = "ok") =>
            /\ SeqRange(responses[i].emails_sent_for_po_ids)
                  \cap SeqRange(responses[j].emails_sent_for_po_ids) = {}
            /\ responses[i].date_checked = responses[j].date_checked =>
                  /\ responses[j].emails_sent_for_po_ids = <<>>
                  /\ responses[j].attempted = <<>>
                  /\ responses[j].breaches_detected = responses[i].breaches_detected

AlertIdempotentWitness ==
    \E i, j \in 1 .. Len(responses) :
        /\ i < j
        /\ responses[i].status = "ok" /\ responses[j].status = "ok"
        /\ responses[i].date_checked = responses[j].date_checked
        /\ Len(responses[i].emails_sent_for_po_ids) = 2
        /\ responses[j].breaches_detected = 2
        /\ responses[j].skipped = SeqRange(responses[i].emails_sent_for_po_ids)

\* C6: in an ended request, a failed send for one PO id has not kept the send from
\* being attempted for every other breach PO id of the batch that was not yet alerted;
\* the failed PO id is not in the already-alerted set and was attempted once only.
IndependentOnFailure ==
    \A i \in 1 .. Len(responses) :
        responses[i].status = "error" =>
            LET failed == responses[i].attempted[Len(responses[i].attempted)]
            IN  /\ \A id \in responses[i].batch :
                      id \in SeqRange(responses[i].attempted) \/ id \in responses[i].alerted
                /\ Occurrences(responses[i].attempted, failed) = 1
                /\ failed \notin responses[i].alerted

\* C9: whatever the interleaving of overlapping requests, the email for a PO id is
\* delivered at most once.
AtMostOnceEmail ==
    \A k \in 1 .. Len(outbox) : Occurrences(outbox, outbox[k]) <= 1

-----------------------------------------------------------------------------
(* Properties of the KPI endpoints *)

\* C7: for a non-empty stored ledger, in whatever order its rows are stored,
\* /kpi/current-stock returns the closing_stock of the row with the greatest date.
CurrentStockIsLatest ==
    (kpi.endpoint = "current-stock" /\ Len(inventory_df) > 0) =>
        /\ kpi.response.raised = ""
        /\ \E i \in 1 .. Len(inventory_df) :
              /\ \A j \in 1 .. Len(inventory_df) : inventory_df[j].date <= inventory_df[i].date
              /\ kpi.response.value = inventory_df[i].closing_stock

\* C8: when no stored order passes the start_date, end_date and supplier filters,
\* on-time-delivery, avg-delay and allocation-compliance return 0, supplier-performance
\* and supplier-allocation-compliance return the empty list, and none raises.
Passes(r, start, end, supplier) ==
    /\ start # <<>> => r.actual_delivery_date >= start[1]
    /\ end # <<>> => r.actual_delivery_date <= end[1]
    /\ supplier # <<>> => r.supplier_id = supplier[1]

EmptyResultHandled ==
    (/\ kpi.endpoint # "none"
     /\ \A i \in 1 .. Len(po_df) :
           ~Passes(po_df[i], kpi.start_date, kpi.end_date, kpi.supplier)) =>
        /\ kpi.response.raised = ""
        /\ kpi.endpoint \in {"on-time-delivery", "avg-delay", "allocation-compliance"}
              => kpi.response.value = 0
        /\ kpi.endpoint \in {"supplier-performance", "supplier-allocation-compliance"}
              => kpi.response.value = <<>>

EmptyResultHandledWitness ==
    /\ kpi.endpoint = "on-time-delivery"
    /\ Len(po_df) = 2
    /\ kpi.start_date = <<3>>
    /\ kpi.end_date = <<>>
    /\ kpi.supplier = <<"S1">>
    /\ po_df[1].supplier_id = "S1"
    /\ kpi.response = [raised |-> "", value |-> 0]

====
